---- MODULE Spec2Model ----
(***************************************************************************)
(* Model of generate_school_calendar.py: the pipeline _main (authenticate, *)
(* window fetch, link extraction, per-link detail fetch and parse,         *)
(* calendar build, upload) and the pure functions it is made of.           *)
(*                                                                         *)
(* Text is a sequence of atoms.  An atom is either a single character      *)
(* that the code treats specially (a quote, a colon, a comma, a dash, a    *)
(* blank, a line break) or a run of ordinary characters written as one     *)
(* string ("ajax-link=", "/a", "Sep", "09:00").  The string operations of  *)
(* the code (split, join, strip, replace) are computed atom by atom.       *)
(***************************************************************************)
EXTENDS Integers, Sequences, FiniteSets, TLC

VARIABLES
    pc,                \* the statement of _main that runs next, "done" after
                       \* the last one, "failed" once an exception has left _main
    cookies,           \* the session cookies ("" before authentication)
    calendar_entries,  \* the window document
    links,             \* the extracted links
    idx,               \* position of the loop over links
    tooltip_response,  \* the detail page of the current link
    lesson_list,       \* the lesson records parsed so far
    ical_calendar,     \* the calendar built from lesson_list
    published,         \* the content of the object in the bucket
    error,             \* the class of the exception that left _main ("" if none)
    printed,           \* what the program has printed
    log,               \* history: the steps of the run so far, with their outcome
    host_offset,       \* UTC offset of the host's local timezone, in minutes
    tz_offset          \* UTC offset of the tz object built from TIMEZONE

vars == <<pc, cookies, calendar_entries, links, idx, tooltip_response,
          lesson_list, ical_calendar, published, error, printed, log,
          host_offset, tz_offset>>

\* ------------------------------------------------------------------ bounds
MaxHtmlLen == 8
MaxLinks == 3
MaxRecords == 3

\* --------------------------------------------------------------- constants
CALENDAR_PROD_ID == <<"-//Tiffin School//Tiffin School Calendar//EN">>
TIMEZONE == "Europe/London"
VERSION == <<"2.0">>

\* Python's None where a text is expected: a text holding one reserved atom
\* that occurs in no alphabet of the model.
None == <<"<NoneType>">>

QUOTE == "\""
MARKER == <<"ajax-link=", QUOTE>>

\* ----------------------------------------------------------- results
Ok(v) == [ok |-> TRUE, val |-> v, exc |-> ""]
Raise(e) == [ok |-> FALSE, val |-> <<>>, exc |-> e]

\* ------------------------------------------------------- string operations
IsWs(c) == c \in {" ", "\n", "\t"}

MatchAt(s, sep, i) ==
    /\ i + Len(sep) - 1 <= Len(s)
    /\ \A k \in 1..Len(sep) : s[i + k - 1] = sep[k]

RECURSIVE SplitAt(_, _, _, _)
SplitAt(s, sep, i, cur) ==
    IF i > Len(s) THEN <<cur>>
    ELSE IF MatchAt(s, sep, i)
         THEN <<cur>> \o SplitAt(s, sep, i + Len(sep), <<>>)
         ELSE SplitAt(s, sep, i + 1, Append(cur, s[i]))

\* str.split(sep): the pieces between the non-overlapping occurrences of sep,
\* found left to right; always at least one piece.
Split(s, sep) == SplitAt(s, sep, 1, <<>>)

RECURSIVE SplitWsAt(_, _, _)
SplitWsAt(s, i, cur) ==
    IF i > Len(s) THEN (IF cur = <<>> THEN <<>> ELSE <<cur>>)
    ELSE IF IsWs(s[i])
         THEN (IF cur = <<>> THEN <<>> ELSE <<cur>>) \o SplitWsAt(s, i + 1, <<>>)
         ELSE SplitWsAt(s, i + 1, Append(cur, s[i]))

\* str.split() without argument: the maximal runs of non-whitespace.
SplitWs(s) == SplitWsAt(s, 1, <<>>)

RECURSIVE Join(_, _)
Join(sep, parts) ==
    IF parts = <<>> THEN <<>>
    ELSE IF Len(parts) = 1 THEN parts[1]
    ELSE parts[1] \o sep \o Join(sep, Tail(parts))

\* str.replace(c, ''): s without the atoms equal to c.
Remove(s, c) == SelectSeq(s, LAMBDA x : x # c)

RECURSIVE LStrip(_)
LStrip(s) == IF s # <<>> /\ IsWs(s[1]) THEN LStrip(Tail(s)) ELSE s

RECURSIVE RStrip(_)
RStrip(s) ==
    IF s # <<>> /\ IsWs(s[Len(s)]) THEN RStrip(SubSeq(s, 1, Len(s) - 1)) ELSE s

Strip(s) == RStrip(LStrip(s))

\* list[1:]
From1(l) == SubSeq(l, 2, Len(l))

\* ------------------------------------------------------- get_calendar_html
\* The links of one html field: h['html'].split('ajax-link="')[1:], each cut
\* at its first quote.
RECURSIVE CutAll(_)
CutAll(pieces) ==
    IF pieces = <<>> THEN <<>>
    ELSE <<Split(pieces[1], <<QUOTE>>)[1]>> \o CutAll(Tail(pieces))

HtmlLinksDedup(html) ==
    LET all == CutAll(From1(Split(html, MARKER)))
        keep == {i \in 1..Len(all) : \A j \in 1..(i - 1) : all[j] # all[i]}
        RECURSIVE Pick(_)
        Pick(i) == IF i > Len(all) THEN <<>>
                   ELSE (IF i \in keep THEN <<all[i]>> ELSE <<>>) \o Pick(i + 1)
    IN Pick(1)

HtmlLinks(html) == CutAll(From1(Split(html, MARKER)))

RECURSIVE PagesLinks(_)
PagesLinks(pages) ==
    IF pages = <<>> THEN <<>>
    ELSE (IF "html" \in DOMAIN pages[1] THEN HtmlLinks(pages[1].html) ELSE <<>>)
         \o PagesLinks(Tail(pages))

\* entries['items'][0]['fields']['response']['value']['pages']: a missing key
\* raises KeyError, an empty items list IndexError.
get_calendar_html(entries) ==
    IF "items" \notin DOMAIN entries THEN Raise("KeyError")
    ELSE IF entries.items = <<>> THEN Raise("IndexError")
    ELSE IF "fields" \notin DOMAIN entries.items[1] THEN Raise("KeyError")
    ELSE IF "response" \notin DOMAIN entries.items[1].fields THEN Raise("KeyError")
    ELSE IF "value" \notin DOMAIN entries.items[1].fields.response
         THEN Raise("KeyError")
    ELSE IF "pages" \notin DOMAIN entries.items[1].fields.response.value
         THEN Raise("KeyError")
    ELSE Ok(PagesLinks(entries.items[1].fields.response.value.pages))

\* The window document whose pages list is pages.
Doc(pages) ==
    [items |-> <<[fields |-> [response |-> [value |-> [pages |-> pages]]]]>>]

\* -------------------------------------------------- extract_lesson_details
\* A detail page as BeautifulSoup sees it: title is the text of the element
\* '.header > .title' (None when there is no such element) and items[i] is
\* the text of the span of the i-th '.content > ul > li' element (None when
\* the item has no span).

\* The values strptime's %d, %b, %Y and %H:%M directives accept in the model,
\* and the numbers they stand for.
DayTexts == {"05", "17"}
MonthTexts == {"Sep"}
YearTexts == {"2024"}
TimeTexts == {"00:15", "09:00", "10:00"}

DayNumber(d) == IF d = "05" THEN 5 ELSE 17
MinuteOfDay(t) == IF t = "00:15" THEN 15 ELSE IF t = "09:00" THEN 540 ELSE 600

\* A datetime: minutes since the start of the month, and the tzinfo
\* ("None" for a naive datetime).
DateTime(m, tz) == [min |-> m, tzinfo |-> tz]

\* datetime.strptime(text, '%d %b %Y %H:%M'): the four fields separated by
\* whitespace, nothing before or after; the result is naive.
strptime(text) ==
    LET w == SplitWs(text)
    IN IF /\ text # <<>>
          /\ ~IsWs(text[1])
          /\ ~IsWs(text[Len(text)])
          /\ Len(w) = 4
          /\ \A i \in 1..4 : Len(w[i]) = 1
          /\ w[1][1] \in DayTexts
          /\ w[2][1] \in MonthTexts
          /\ w[3][1] \in YearTexts
          /\ w[4][1] \in TimeTexts
       THEN Ok(DateTime(DayNumber(w[1][1]) * 1440
                          + MinuteOfDay(w[4][1]), "None"))
       ELSE Raise("ValueError")

\* Lines 112-119: the date and time of the first item.
ParseDates(span) ==
    LET source_date == Remove(span, "\n")
        parsed_date == Join(<<" ">>, SplitWs(source_date))
        rest == From1(Split(parsed_date, <<",", " ">>))
    IN IF Len(rest) # 2 THEN Raise("ValueError")
       ELSE LET date_str == rest[1]
                times == Split(rest[2], <<" ", "-", " ">>)
            IN IF Len(times) # 2 THEN Raise("ValueError")
               ELSE LET from_date == strptime(date_str \o <<" ">> \o times[1])
                        to_date == strptime(date_str \o <<" ">> \o times[2])
                    IN IF ~from_date.ok THEN from_date
                       ELSE IF ~to_date.ok THEN to_date
                       ELSE Ok(<<from_date.val, to_date.val>>)

\* Lines 105-111: location and staff.
LocationStaff(items) ==
    IF Len(items) < 3
    THEN IF Len(items) < 2 THEN Raise("IndexError")
         ELSE IF items[2] = None THEN Raise("AttributeError")
         ELSE Ok(<<None, items[2]>>)
    ELSE IF items[2] = None THEN Raise("AttributeError")
         ELSE IF Len(Split(items[2], <<":">>)) < 2 THEN Raise("IndexError")
         ELSE IF items[3] = None THEN Raise("AttributeError")
         ELSE Ok(<<Strip(Split(items[2], <<":">>)[2]), items[3]>>)

extract_lesson_details(html) ==
    IF html.title = None THEN Raise("AttributeError")
    ELSE LET subject == Split(html.title, <<":", " ", "Year">>)[1]
             ls == LocationStaff(html.items)
         IN IF ~ls.ok THEN ls
            ELSE IF html.items[1] = None THEN Raise("AttributeError")
            ELSE LET d == ParseDates(html.items[1])
                 IN IF ~d.ok THEN d
                    ELSE Ok([subject |-> subject,
                             class_location |-> ls.val[1],
                             staff |-> ls.val[2],
                             from_date |-> d.val[1],
                             to_date |-> d.val[2]])

\* --------------------------------------- create_calendar_event, create_calendar
\* icalendar stores a text property as vText(value), a str subclass built by
\* str.__new__(cls, value): the text itself, and 'None' for None.
vText(value) == IF value = None THEN <<"None">> ELSE value

\* datetime.astimezone(tz): a naive datetime is taken to be in the local
\* timezone of the host (UTC offset host minutes); the result shows the same
\* instant on the clock of tz (UTC offset target minutes).
astimezone(dt, host, target) ==
    IF dt.tzinfo = "None"
    THEN DateTime(dt.min - host + target, TIMEZONE)
    ELSE DateTime(dt.min, TIMEZONE)

create_calendar_event(lesson, host, target) ==
    [summary |-> vText(lesson.subject),
     location |-> vText(lesson.class_location),
     description |-> vText(lesson.staff),
     dtstart |-> astimezone(lesson.from_date, host, target),
     dtend |-> astimezone(lesson.to_date, host, target)]

RECURSIVE Components(_, _, _)
Components(lessons, host, target) ==
    IF lessons = <<>> THEN <<>>
    ELSE <<create_calendar_event(lessons[1], host, target)>>
         \o Components(Tail(lessons), host, target)

create_calendar(lessons, host, target) ==
    [prodid |-> CALENDAR_PROD_ID,
     version |-> VERSION,
     events |-> Components(lessons, host, target)]

\* Calendar.to_ical(): the content lines of the calendar, one
\* BEGIN:VEVENT ... END:VEVENT block per component in component order, the
\* properties of a component in alphabetical order of their names.
Line(name, value) == [name |-> name, value |-> value]

EventLines(e) ==
    << Line("BEGIN", <<"VEVENT">>),
       Line("SUMMARY", e.summary),
       Line("DTSTART", <<e.dtstart>>),
       Line("DTEND", <<e.dtend>>),
       Line("DESCRIPTION", e.description),
       Line("LOCATION", e.location),
       Line("END", <<"VEVENT">>) >>

RECURSIVE AllEventLines(_)
AllEventLines(events) ==
    IF events = <<>> THEN <<>>
    ELSE EventLines(events[1]) \o AllEventLines(Tail(events))

to_ical(cal) ==
    << Line("BEGIN", <<"VCALENDAR">>),
       Line("VERSION", cal.version),
       Line("PRODID", cal.prodid) >>
    \o AllEventLines(cal.events)
    \o << Line("END", <<"VCALENDAR">>) >>

\* ------------------------------------------------------------ environment
\* What the portal serves in the model.
Links == {<<"/a">>, <<"/b">>}

RECURSIVE SeqsUpTo(_, _)
SeqsUpTo(S, n) ==
    IF n = 0 THEN {<<>>}
    ELSE LET shorter == SeqsUpTo(S, n - 1)
         IN shorter \cup {Append(q, x) : q \in {r \in shorter : Len(r) = n - 1}, x \in S}

LinkLists == SeqsUpTo(Links, MaxLinks)

RECURSIVE HtmlOf(_)
HtmlOf(ls) ==
    IF ls = <<>> THEN <<"</div>">>
    ELSE <<"<a ">> \o MARKER \o ls[1] \o <<QUOTE, ">">> \o HtmlOf(Tail(ls))

NoDoc == [none |-> TRUE]
PipelineDocs ==
    {Doc(<<[id |-> 1], [html |-> HtmlOf(ls)]>>) : ls \in LinkLists}
    \cup {[items |-> <<>>], [error |-> TRUE]}

DateText(day, from, to) ==
    <<"\n", " ", "Thu", ",", " ", day, " ", "Sep", " ", "2024", ",", "\n", " ",
      from, " ", "-", " ", to, "\n">>

ServerPage(link) ==
    IF link = <<"/a">>
    THEN [title |-> <<"Maths", ":", " ", "Year", " ", "9">>,
          items |-> << DateText("05", "09:00", "10:00"),
                       <<"Location", ":", " ", "A12">>,
                       <<"J. Smith">> >>]
    ELSE [title |-> <<"Art", ":", " ", "Year", " ", "9">>,
          items |-> << DateText("17", "00:15", "09:00"),
                       <<"P. Jones">> >>]

NoPage == [title |-> None, items |-> <<>>]
DriftedPage == [title |-> <<"Maths", ":", " ", "Year", " ", "9">>, items |-> <<>>]

\* The UTC offset, in minutes, of the host's local timezone and of the tz
\* object built from TIMEZONE at the time of a lesson.
HostOffsets == {-300, 0, 60}
TzOffsets == {0, 60}

OldArtifact == << Line("BEGIN", <<"VCALENDAR">>), Line("END", <<"VCALENDAR">>) >>
NoCalendar == [prodid |-> <<>>, version |-> <<>>, events |-> <<>>]

\* The exceptions requests raises: raise_for_status on an error status, the
\* transport on a network failure, response.json() on a body that is not JSON.
StatusExc == {"HTTPError"}
TransportExc == {"ConnectionError", "Timeout"}
RequestExc == StatusExc \cup TransportExc

Entry(op, arg, ok) == [op |-> op, arg |-> arg, ok |-> ok]

Fail(e) ==
    /\ pc' = "failed"
    /\ error' = e

\* ------------------------------------------------------------------ _main
TypeOK ==
    /\ pc \in {"auth", "window", "extract", "detail", "parse", "build",
               "upload", "done", "failed"}
    /\ cookies \in {"", "session"}
    /\ error \in {"", "HTTPError", "ConnectionError", "Timeout",
                  "JSONDecodeError", "KeyError", "IndexError", "AttributeError",
                  "ValueError", "NoRegionError", "UnboundLocalError"}
    /\ idx \in 1..(Len(links) + 1)
    /\ Len(lesson_list) <= Len(links)
    /\ host_offset \in HostOffsets
    /\ tz_offset \in TzOffsets

Init ==
    /\ pc = "auth"
    /\ cookies = ""
    /\ calendar_entries = NoDoc
    /\ links = <<>>
    /\ idx = 1
    /\ tooltip_response = NoPage
    /\ lesson_list = <<>>
    /\ ical_calendar = NoCalendar
    /\ published = OldArtifact
    /\ error = ""
    /\ printed = <<>>
    /\ log = <<>>
    /\ host_offset \in HostOffsets
    /\ tz_offset \in TzOffsets

\* line 168: cookies = authenticate(args.username, args.password)
AuthenticateNoRaise ==
    /\ pc = "auth"
    /\ \E status \in BOOLEAN :
          /\ log' = Append(log, Entry("login", <<>>, status))
          /\ cookies' = IF status THEN "session" ELSE cookies
    /\ pc' = "window"
    /\ UNCHANGED <<calendar_entries, links, idx, tooltip_response, lesson_list,
                   ical_calendar, published, error, printed, host_offset,
                   tz_offset>>

Authenticate ==
    /\ pc = "auth"
    /\ \/ /\ log' = Append(log, Entry("login", <<>>, TRUE))
          /\ cookies' = "session"
          /\ pc' = "window"
          /\ UNCHANGED error
       \/ /\ log' = Append(log, Entry("login", <<>>, FALSE))
          /\ \E e \in RequestExc : Fail(e)
          /\ UNCHANGED cookies
    /\ UNCHANGED <<calendar_entries, links, idx, tooltip_response, lesson_list,
                   ical_calendar, published, printed, host_offset, tz_offset>>

\* line 169: calendar_entries = get_calendar_entries(cookies, start_date, end_date)
GetCalendarEntries ==
    /\ pc = "window"
    /\ \/ /\ log' = Append(log, Entry("window", <<>>, TRUE))
          /\ \E doc \in PipelineDocs : calendar_entries' = doc
          /\ pc' = "extract"
          /\ UNCHANGED error
       \/ /\ log' = Append(log, Entry("window", <<>>, FALSE))
          /\ \E e \in RequestExc \cup {"JSONDecodeError"} : Fail(e)
          /\ UNCHANGED calendar_entries
    /\ UNCHANGED <<cookies, links, idx, tooltip_response, lesson_list,
                   ical_calendar, published, printed, host_offset, tz_offset>>

\* lines 170-172: links = get_calendar_html(calendar_entries); lesson_list = [];
\* the loop over links starts
GetCalendarHtml ==
    /\ pc = "extract"
    /\ LET r == get_calendar_html(calendar_entries)
       IN IF r.ok
          THEN /\ log' = Append(log, Entry("extract", <<>>, TRUE))
               /\ links' = r.val
               /\ idx' = 1
               /\ lesson_list' = <<>>
               /\ pc' = IF r.val = <<>> THEN "build" ELSE "detail"
               /\ UNCHANGED error
          ELSE /\ log' = Append(log, Entry("extract", <<>>, FALSE))
               /\ Fail(r.exc)
               /\ UNCHANGED <<links, idx, lesson_list>>
    /\ UNCHANGED <<cookies, calendar_entries, tooltip_response, ical_calendar,
                   published, printed, host_offset, tz_offset>>

\* line 173: tooltip_response = get_calendar_entry(link, cookies)
GetCalendarEntry ==
    /\ pc = "detail"
    /\ \/ /\ log' = Append(log, Entry("detail", links[idx], TRUE))
          /\ \E page \in {ServerPage(links[idx]), NoPage, DriftedPage} :
                tooltip_response' = page
          /\ pc' = "parse"
          /\ UNCHANGED error
       \/ /\ log' = Append(log, Entry("detail", links[idx], FALSE))
          /\ \E e \in RequestExc : Fail(e)
          /\ UNCHANGED tooltip_response
    /\ UNCHANGED <<cookies, calendar_entries, links, idx, lesson_list,
                   ical_calendar, published, printed, host_offset, tz_offset>>

\* lines 174-175: lesson_details = extract_lesson_details(tooltip_response);
\* lesson_list.append(lesson_details); next link
ExtractLessonDetailsReversed ==
    /\ pc = "parse"
    /\ LET r == extract_lesson_details(tooltip_response)
       IN IF r.ok
          THEN /\ log' = Append(log, Entry("parse", links[idx], TRUE))
               /\ lesson_list' = <<r.val>> \o lesson_list
               /\ idx' = idx + 1
               /\ pc' = IF idx + 1 > Len(links) THEN "build" ELSE "detail"
               /\ UNCHANGED error
          ELSE /\ log' = Append(log, Entry("parse", links[idx], FALSE))
               /\ Fail(r.exc)
               /\ UNCHANGED <<lesson_list, idx>>
    /\ UNCHANGED <<cookies, calendar_entries, links, tooltip_response,
                   ical_calendar, published, printed, host_offset, tz_offset>>

ExtractLessonDetailsSkip ==
    /\ pc = "parse"
    /\ LET r == extract_lesson_details(tooltip_response)
       IN /\ log' = Append(log, Entry("parse", links[idx], r.ok))
          /\ lesson_list' = IF r.ok THEN Append(lesson_list, r.val) ELSE lesson_list
          /\ idx' = idx + 1
          /\ pc' = IF idx + 1 > Len(links) THEN "build" ELSE "detail"
          /\ UNCHANGED error
    /\ UNCHANGED <<cookies, calendar_entries, links, tooltip_response,
                   ical_calendar, published, printed, host_offset, tz_offset>>

ExtractLessonDetails ==
    /\ pc = "parse"
    /\ LET r == extract_lesson_details(tooltip_response)
       IN IF r.ok
          THEN /\ log' = Append(log, Entry("parse", links[idx], TRUE))
               /\ lesson_list' = Append(lesson_list, r.val)
               /\ idx' = idx + 1
               /\ pc' = IF idx + 1 > Len(links) THEN "build" ELSE "detail"
               /\ UNCHANGED error
          ELSE /\ log' = Append(log, Entry("parse", links[idx], FALSE))
               /\ Fail(r.exc)
               /\ UNCHANGED <<lesson_list, idx>>
    /\ UNCHANGED <<cookies, calendar_entries, links, tooltip_response,
                   ical_calendar, published, printed, host_offset, tz_offset>>

\* line 176: ical_calendar = create_calendar(lesson_list)
CreateCalendar ==
    /\ pc = "build"
    /\ log' = Append(log, Entry("build", <<>>, TRUE))
    /\ ical_calendar' = create_calendar(lesson_list, host_offset, tz_offset)
    /\ pc' = "upload"
    /\ UNCHANGED <<cookies, calendar_entries, links, idx, tooltip_response,
                   lesson_list, published, error, printed, host_offset,
                   tz_offset>>

\* line 177: upload_ical_to_s3(ical_calendar).  The step that fails, if any, is
\* the environment's choice.
\*   client:   boto3.client('s3') is called before the try statement, so its
\*             exception leaves the function;
\*   tempfile: the except clause reports the failure, then the finally clause
\*             reads temp_file, which was never bound: UnboundLocalError leaves
\*             the function;
\*   to_ical, upload: reported by the except clause, the function returns.
UploadSteps == {"client", "tempfile", "to_ical", "upload"}

UploadIcalToS3 ==
    /\ pc = "upload"
    /\ \/ /\ log' = Append(log, Entry("upload", <<>>, TRUE))
          /\ published' = to_ical(ical_calendar)
          /\ pc' = "done"
          /\ UNCHANGED <<error, printed>>
       \/ /\ log' = Append(log, Entry("upload", <<>>, FALSE))
          /\ \E step \in UploadSteps :
                CASE step = "client" ->
                       /\ Fail("NoRegionError")
                       /\ UNCHANGED printed
                  [] step = "tempfile" ->
                       /\ printed' = Append(printed, "Failed to upload file to S3")
                       /\ Fail("UnboundLocalError")
                  [] OTHER ->
                       /\ printed' = Append(printed, "Failed to upload file to S3")
                       /\ pc' = "done"
                       /\ UNCHANGED error
          /\ UNCHANGED published
    /\ UNCHANGED <<cookies, calendar_entries, links, idx, tooltip_response,
                   lesson_list, ical_calendar, host_offset, tz_offset>>

Next ==
    \/ Authenticate
    \/ GetCalendarEntries
    \/ GetCalendarHtml
    \/ GetCalendarEntry
    \/ ExtractLessonDetails
    \/ CreateCalendar
    \/ UploadIcalToS3

Spec == Init /\ [][Next]_vars

\* ------------------------------------------------- get_calendar_html alone
\* The window documents of the bounded check: every html text of at most
\* MaxHtmlLen atoms, as one fragment, cut into two fragments, or cut into two
\* fragments with a fragment without html field between them.
HtmlAtoms == {"ajax-link=", QUOTE, "/a"}
HtmlTexts == UNION {[1..n -> HtmlAtoms] : n \in 0..MaxHtmlLen}

PagesOf(s, c, shape) ==
    LET s1 == SubSeq(s, 1, c)
        s2 == SubSeq(s, c + 1, Len(s))
    IN CASE shape = "one" -> <<[html |-> s]>>
         [] shape = "two" -> <<[html |-> s1], [html |-> s2]>>
         [] OTHER -> <<[html |-> s1], [id |-> 1], [html |-> s2]>>

InitLinks ==
    /\ pc = "extract"
    /\ cookies = "session"
    /\ \/ \E s \in HtmlTexts, c \in 0..MaxHtmlLen, shape \in {"one", "two", "gap"} :
             /\ c <= Len(s)
             /\ calendar_entries = Doc(PagesOf(s, c, shape))
       \/ calendar_entries \in {Doc(<<>>), [items |-> <<>>], [error |-> TRUE]}
    /\ links = <<>>
    /\ idx = 1
    /\ tooltip_response = NoPage
    /\ lesson_list = <<>>
    /\ ical_calendar = NoCalendar
    /\ published = OldArtifact
    /\ error = ""
    /\ printed = <<>>
    /\ log = <<Entry("login", <<>>, TRUE), Entry("window", <<>>, TRUE)>>
    /\ host_offset = 0
    /\ tz_offset = 0

SpecLinks == InitLinks /\ [][GetCalendarHtml]_vars

\* -------------------------------------------- extract_lesson_details alone
\* The first item's text: the tokens of
\* "Thu, <day> Sep 2024, 09:00 - 10:00" with a run of whitespace from Gaps
\* wherever the text has a blank.
Gaps == {<<" ">>, <<"\n">>, <<" ", "\n", " ">>, <<"\t", " ">>}

SpacedDate(day, g) ==
    <<"Thu", ",">> \o g[1] \o <<day>> \o g[2] \o <<"Sep">> \o g[3]
    \o <<"2024", ",">> \o g[4] \o <<"09:00">> \o g[5] \o <<"-">> \o g[6]
    \o <<"10:00">>

SpacedDates == {SpacedDate(day, g) : day \in DayTexts, g \in [1..6 -> Gaps]}

PlainDate == SpacedDate("05", [i \in 1..6 |-> <<" ">>])

\* The second item's text: every text of at most MaxLocLen atoms.
MaxLocLen == 4
LocAtoms == {"Location", ":", " ", "A12"}
LocTexts == UNION {[1..n -> LocAtoms] : n \in 0..MaxLocLen}

MathsTitle == <<"Maths", ":", " ", "Year", " ", "9">>

ParsePages ==
    {[title |-> MathsTitle, items |-> <<d, <<"Location", ":", " ", "A12">>, <<"J. Smith">>>>] :
        d \in SpacedDates}
    \cup {[title |-> MathsTitle, items |-> <<PlainDate, t, <<"J. Smith">>>>] :
        t \in LocTexts \cup {None}}
    \cup {[title |-> MathsTitle, items |-> <<PlainDate, t, <<"J. Smith">>, <<"Set 1">>>>] :
        t \in LocTexts}
    \cup {[title |-> MathsTitle, items |-> <<PlainDate, t>>] : t \in LocTexts}
    \cup {[title |-> MathsTitle, items |-> <<PlainDate>>], NoPage, DriftedPage}

InitParse ==
    /\ pc = "parse"
    /\ cookies = "session"
    /\ calendar_entries = Doc(<<[html |-> HtmlOf(<<(<<"/a">>)>>)]>>)
    /\ links = <<(<<"/a">>)>>
    /\ idx = 1
    /\ tooltip_response \in ParsePages
    /\ lesson_list = <<>>
    /\ ical_calendar = NoCalendar
    /\ published = OldArtifact
    /\ error = ""
    /\ printed = <<>>
    /\ log = << Entry("login", <<>>, TRUE), Entry("window", <<>>, TRUE),
                Entry("extract", <<>>, TRUE), Entry("detail", <<"/a">>, TRUE) >>
    /\ host_offset = 0
    /\ tz_offset = 0

SpecParse == InitParse /\ [][ExtractLessonDetails]_vars

\* ---------------------------------------------------- create_calendar alone
\* The Lesson Records of the bounded check, as extract_lesson_details returns
\* them: location present or None, naive datetimes.
Records ==
    {[subject |-> s, class_location |-> l, staff |-> <<"J. Smith">>,
      from_date |-> DateTime(f, "None"), to_date |-> DateTime(f + 60, "None")] :
        s \in {<<"Maths">>, <<"Art">>},
        l \in {None, <<"A12">>},
        f \in {5 * 1440 + 540, 17 * 1440 + 15}}

InitCal ==
    /\ pc = "build"
    /\ cookies = "session"
    /\ lesson_list \in SeqsUpTo(Records, MaxRecords)
    /\ links = [i \in 1..Len(lesson_list) |-> <<"/a">>]
    /\ calendar_entries = Doc(<<[html |-> HtmlOf(links)]>>)
    /\ idx = Len(links) + 1
    /\ tooltip_response = NoPage
    /\ ical_calendar = NoCalendar
    /\ published = OldArtifact
    /\ error = ""
    /\ printed = <<>>
    /\ log = <<>>
    /\ host_offset \in HostOffsets
    /\ tz_offset \in TzOffsets

SpecCal == InitCal /\ [][CreateCalendar]_vars

\* ================================================================== claims
Ops(kinds) == {i \in 1..Len(log) : log[i].op \in kinds}
Failed(kinds) == {i \in Ops(kinds) : ~log[i].ok}

\* C1: when the authentication call fails, the run aborts at once: the failed
\* login is the last step of the run, so no window request, detail request or
\* upload is ever issued after it.
C1_AuthFailureAborts ==
    \A i \in Failed({"login"}) : i = Len(log) /\ pc = "failed"

C1_Witness ==
    /\ pc = "failed"
    /\ error = "HTTPError"
    /\ log = <<Entry("login", <<>>, FALSE)>>

\* C2: a run in which authentication, the window fetch, link extraction, a
\* detail fetch or a lesson parse has failed has attempted no upload and has
\* left the published artifact as it was, whatever the number of links and the
\* position of the failing link.
PrePublishOps == {"login", "window", "extract", "detail", "parse"}

C2_FailedRunPublishesNothing ==
    Failed(PrePublishOps) # {} =>
        /\ pc = "failed"
        /\ Ops({"build", "upload"}) = {}
        /\ published = OldArtifact

C2_Witness ==
    /\ pc = "failed"
    /\ Len(links) = 3
    /\ Len(lesson_list) = 2
    /\ Failed({"parse"}) # {}
    /\ published = OldArtifact

\* C3: whichever step of upload_ical_to_s3 fails, the failure is caught and
\* reported and the function returns normally: the run ends without an error.
C3_PublisherNeverRaises ==
    \A i \in Failed({"upload"}) :
        /\ pc = "done"
        /\ error = ""
        /\ printed # <<>>

\* C4: in a run in which every step succeeds the steps are login, window,
\* extract, then detail and parse of each link in encounter order, then build,
\* then one upload, and the uploaded calendar holds one event per extracted
\* link, duplicates included, in the links' order.
RECURSIVE PerLink(_)
PerLink(ls) ==
    IF ls = <<>> THEN <<>>
    ELSE <<Entry("detail", ls[1], TRUE), Entry("parse", ls[1], TRUE)>>
         \o PerLink(Tail(ls))

ExpectedLog(ls) ==
    <<Entry("login", <<>>, TRUE), Entry("window", <<>>, TRUE),
      Entry("extract", <<>>, TRUE)>>
    \o PerLink(ls)
    \o <<Entry("build", <<>>, TRUE), Entry("upload", <<>>, TRUE)>>

SubjectOn(link) == IF link = <<"/a">> THEN <<"Maths">> ELSE <<"Art">>

LinesNamed(lines, name) == SelectSeq(lines, LAMBDA l : l.name = name)

C4_SuccessfulRunOrder ==
    (pc = "done" /\ Failed({"login", "window", "extract", "detail", "parse",
                            "build", "upload"}) = {}) =>
        /\ log = ExpectedLog(links)
        /\ Len(SelectSeq(published, LAMBDA l : l.name = "BEGIN" /\ l.value = <<"VEVENT">>))
             = Len(links)
        /\ LET summaries == LinesNamed(published, "SUMMARY")
           IN /\ Len(summaries) = Len(links)
              /\ \A i \in 1..Len(links) : summaries[i].value = SubjectOn(links[i])

C4_Witness ==
    /\ pc = "done"
    /\ Failed(PrePublishOps \cup {"upload"}) = {}
    /\ links = << <<"/a">>, <<"/b">>, <<"/a">> >>
    /\ published # OldArtifact

\* C5: for a well-formed window document get_calendar_html returns the quoted
\* values that follow the occurrences of the marker in the html fields, in
\* encounter order across and within fragments, duplicates kept; a fragment
\* without html field contributes nothing and no occurrence gives the empty
\* list, not an error.
Occurrences(h) == {p \in 1..Len(h) : MatchAt(h, MARKER, p)}

Closing(h, p) == {q \in (p + Len(MARKER))..Len(h) : h[q] = QUOTE}

Min(S) == CHOOSE x \in S : \A y \in S : x <= y

\* Every occurrence of the marker opens a quoted value: a closing quote
\* follows, and that quote is not itself the quote of a later marker.
WellFormedHtml(h) ==
    \A p \in Occurrences(h) :
        /\ Closing(h, p) # {}
        /\ ~MatchAt(h, MARKER, Min(Closing(h, p)) - 1)

QuotedValue(h, p) == SubSeq(h, p + Len(MARKER), Min(Closing(h, p)) - 1)

QuotedValues(h) ==
    LET occ == Occurrences(h)
        nth(i) == CHOOSE p \in occ : Cardinality({q \in occ : q < p}) = i - 1
    IN [i \in 1..Cardinality(occ) |-> QuotedValue(h, nth(i))]

RECURSIVE ValuesOfPages(_)
ValuesOfPages(pages) ==
    IF pages = <<>> THEN <<>>
    ELSE (IF "html" \in DOMAIN pages[1] THEN QuotedValues(pages[1].html) ELSE <<>>)
         \o ValuesOfPages(Tail(pages))

HasPages(entries) ==
    /\ "items" \in DOMAIN entries
    /\ entries.items # <<>>

PagesIn(entries) == entries.items[1].fields.response.value.pages

WellFormedDoc(entries) ==
    /\ HasPages(entries)
    /\ \A i \in 1..Len(PagesIn(entries)) :
          "html" \in DOMAIN PagesIn(entries)[i] =>
              WellFormedHtml(PagesIn(entries)[i].html)

C5_LinksAreQuotedValues ==
    (pc # "extract" /\ WellFormedDoc(calendar_entries)) =>
        /\ Failed({"extract"}) = {}
        /\ links = ValuesOfPages(PagesIn(calendar_entries))

C5_Witness ==
    /\ pc = "detail"
    /\ WellFormedDoc(calendar_entries)
    /\ Len(PagesIn(calendar_entries)) = 3
    /\ links = << <<"/a">>, <<"/a">> >>
    /\ PagesIn(calendar_entries)[1].html # <<>>
    /\ PagesIn(calendar_entries)[3].html # <<>>

\* C6: for a detail fragment with 3 or more items, the location of the record
\* returned is the whole text after the first ':' of the second item, trimmed,
\* also when that text holds further ':', and the staff is the third item.
AfterFirstColon(t) ==
    LET first == Min({i \in 1..Len(t) : t[i] = ":"})
    IN SubSeq(t, first + 1, Len(t))

C6_LocationAfterFirstColon ==
    (pc = "build" /\ Len(tooltip_response.items) >= 3) =>
        /\ lesson_list[1].class_location
             = Strip(AfterFirstColon(tooltip_response.items[2]))
        /\ lesson_list[1].staff = tooltip_response.items[3]

\* C7: the first item's text parses to the date at the first time and the
\* same date at the second time whatever whitespace, line breaks included,
\* separates its tokens.
DayIn(t) == IF \E i \in 1..Len(t) : t[i] = "17" THEN 17 ELSE 5

C7_WhitespaceCollapsed ==
    (pc # "parse" /\ Len(tooltip_response.items) = 3
                  /\ tooltip_response.items[1] \in SpacedDates
                  /\ tooltip_response.items[2] = <<"Location", ":", " ", "A12">>) =>
        /\ pc = "build"
        /\ lesson_list[1].from_date.min
             = DayIn(tooltip_response.items[1]) * 1440 + 9 * 60
        /\ lesson_list[1].to_date.min
             = DayIn(tooltip_response.items[1]) * 1440 + 10 * 60

\* C8: create_calendar yields the fixed product identifier and version "2.0"
\* and one event per record in input order, whose summary, location,
\* description, start and end are the record's subject, class_location, staff,
\* from_date and to_date (converted to the timezone); a record without
\* location gives an event without location.
C8_CalendarMatchesRecords ==
    pc = "upload" =>
        /\ ical_calendar.prodid = CALENDAR_PROD_ID
        /\ ical_calendar.version = <<"2.0">>
        /\ Len(ical_calendar.events) = Len(lesson_list)
        /\ \A i \in 1..Len(lesson_list) :
              LET e == ical_calendar.events[i]
                  r == lesson_list[i]
              IN /\ e.summary = r.subject
                 /\ e.location = r.class_location
                 /\ e.description = r.staff
                 /\ e.dtstart.tzinfo = TIMEZONE
                 /\ e.dtend.tzinfo = TIMEZONE
                 /\ e.dtstart.min - tz_offset = r.from_date.min - host_offset
                 /\ e.dtend.min - tz_offset = r.to_date.min - host_offset

\* C9: the start and end of every Lesson Record are timezone-aware, in the
\* configured timezone, and the start and end of the event built from it show
\* the date and time written in the source page, whatever the host's timezone.
SourceStart(link) == IF link = <<"/a">> THEN 5 * 1440 + 540 ELSE 17 * 1440 + 15
SourceEnd(link) == IF link = <<"/a">> THEN 5 * 1440 + 600 ELSE 17 * 1440 + 540

C9_TimezoneAwareWallClock ==
    /\ \A i \in 1..Len(lesson_list) :
          /\ lesson_list[i].from_date.tzinfo = TIMEZONE
          /\ lesson_list[i].to_date.tzinfo = TIMEZONE
    /\ pc \in {"upload", "done"} =>
          \A i \in 1..Len(ical_calendar.events) :
              /\ ical_calendar.events[i].dtstart.min = SourceStart(links[i])
              /\ ical_calendar.events[i].dtend.min = SourceEnd(links[i])

\* C10: an authentication failure, a fetch failure and a structural parse
\* failure end the run with pairwise distinct error conditions: the condition a
\* failure of one category ends with is none a failure of another category
\* ends with, and a parse failure is never a network error.
AuthConditions == RequestExc
FetchConditions == RequestExc \cup {"JSONDecodeError"}
ParseConditions == {"KeyError", "IndexError", "AttributeError", "ValueError"}

C10_DistinctErrorConditions ==
    /\ Failed({"login"}) # {} =>
          error \in AuthConditions \ (FetchConditions \cup ParseConditions)
    /\ Failed({"window", "detail"}) # {} =>
          error \in FetchConditions \ (AuthConditions \cup ParseConditions)
    /\ Failed({"extract", "parse"}) # {} =>
          error \in ParseConditions \ (AuthConditions \cup FetchConditions)

====
